---------------------------- MODULE Spec2Model ----------------------------
(***************************************************************************)
(* Model of src/i2c.c: a command line program that identifies, configures  *)
(* and polls an LTR390 UV sensor through an I2C bridge.                    *)
(*                                                                         *)
(*   Spec        main(): argument check, connect, part-id check, the three *)
(*               configure steps, the poll loop, disconnect.               *)
(*   SpecCodec   the pure encoders / decoders applied to bounded inputs.   *)
(*   SpecRaw     read_raw_data() over a range of data register contents.   *)
(*   SpecSleep   msleep() against a nanosleep that signals may interrupt.  *)
(*   SpecRepeat  main() with each configure step run a second time.        *)
(***************************************************************************)
EXTENDS Integers, Sequences, FiniteSets, TLC

VARIABLES
  pc,            \* position in main / msleep / the codec harness
  argc,          \* main's argc
  regs,          \* the sensor's registers: register address -> byte
  bus,           \* every transaction main has issued on the bus, in order
  connects,      \* successful i2c_connect calls
  disconnects,   \* i2c_disconnect calls
  exitStatus,    \* "running", "EXIT_SUCCESS" or "EXIT_FAILURE"
  part_id,       \* main's local part_id
  mode,          \* main's local mode
  gain,          \* main's local gain
  res_meas_rate, \* main's local res_meas_rate
  data,          \* read_raw_data's locals <<data0, data1, data2>>
  raw_data,      \* read_raw_data's local raw_data
  i,             \* the poll loop's counter
  reports,       \* number of "raw data:" lines printed
  sleeps,        \* milliseconds of sleep the poll loop has asked msleep for
  shown,         \* the lines printed by the last step (decoded reports)
  codec,         \* SpecCodec: the last codec application [op, in, out]
  sl,            \* SpecSleep: msleep's frame and the time really slept
  rep            \* SpecRepeat: the repetition harness's bookkeeping

sessVars == <<argc, regs, bus, connects, disconnects, exitStatus, part_id,
              mode, gain, res_meas_rate, data, raw_data, i, reports, sleeps,
              shown>>
vars == <<pc, sessVars, codec, sl, rep>>

-----------------------------------------------------------------------------
(* Program constants (src/i2c.c:12-58, 337, 341, 343).                      *)

DEVICE == 83              \* 0x53
MAIN_CTRL_REG == 0        \* 0x00
RES_MEAS_RATE_REG == 4    \* 0x04
GAIN_REG == 5             \* 0x05
PART_ID_REG == 6          \* 0x06
MAIN_STATUS_REG == 7      \* 0x07
UV_DATA_REG == 16         \* 0x10
INT_CONF_REG == 25        \* 0x19

ALS_MODE == 2             \* 0x02
UVS_MODE == 10            \* 0x0A

GAIN_1 == 0
GAIN_3 == 1
GAIN_6 == 2
GAIN_9 == 3
GAIN_18 == 4

RES_20_BIT == 0
RES_19_BIT == 1
RES_18_BIT == 2
RES_17_BIT == 3
RES_16_BIT == 4
RES_13_BIT == 5

RATE_25 == 0
RATE_50 == 1
RATE_100 == 2
RATE_200 == 3
RATE_500 == 4
RATE_1000 == 5
RATE_2000 == 6

EXPECTED_PART_ID == 178   \* 0xb2
POLL_COUNT == 10
INT_CONF_RESET == 48      \* 0x30
POLL_SLEEP_MS == 100

Byte == 0..255
NoArg == 0 - 1            \* a printed line without a % argument
RegisterMap == {MAIN_CTRL_REG, RES_MEAS_RATE_REG, GAIN_REG, PART_ID_REG,
                MAIN_STATUS_REG, UV_DATA_REG, UV_DATA_REG + 1,
                UV_DATA_REG + 2, INT_CONF_REG}

-----------------------------------------------------------------------------
(* C integer arithmetic.                                                    *)

RECURSIVE BitOr(_, _)
BitOr(a, b) ==
  IF a = 0 THEN b
  ELSE IF b = 0 THEN a
  ELSE (IF a % 2 = 1 \/ b % 2 = 1 THEN 1 ELSE 0) + 2 * BitOr(a \div 2, b \div 2)

ToUint8(x) == x % 256
Line(text, arg) == [text |-> text, arg |-> arg]

-----------------------------------------------------------------------------
(* The transport (i2cdriver.h) and the process helpers (error.h): declared  *)
(* by the program's own headers, whose bodies are not part of src/.  A call *)
(* is one bus transaction; it either succeeds or signals failure.  A failed *)
(* read leaves the caller's buffer as it was, a failed write leaves the     *)
(* register as it was.  Only the device at DEVICE answers.                  *)

Transaction(op, dev, reg, size, val) ==
  [op |-> op, dev |-> dev, reg |-> reg, size |-> size, val |-> val]

\* i2c_read_register (sd, dev, reg, size, &buf): the byte left in buf.
i2c_read_register(dev, reg, size, buf, ok) ==
  [val |-> IF ok /\ dev = DEVICE /\ reg \in DOMAIN regs THEN regs[reg] ELSE buf,
   bus |-> Append(bus, Transaction("read", dev, reg, size, NoArg))]

\* i2c_write_register (sd, dev, reg, size, buffer): the registers afterwards
\* and the success signal.
i2c_write_register(dev, reg, size, buffer, ok) ==
  [regs |-> IF ok /\ dev = DEVICE /\ reg \in DOMAIN regs
              THEN [regs EXCEPT ![reg] = buffer[1]] ELSE regs,
   bus  |-> Append(bus, Transaction("write", dev, reg, size, buffer[1])),
   ret  |-> ok /\ dev = DEVICE]

\* logExit (fmt, ...): report the error and end the process with failure.
logExit ==
  /\ pc' = "exited"
  /\ exitStatus' = "EXIT_FAILURE"

-----------------------------------------------------------------------------
(* The register accessors of src/i2c.c.  Each local buffer starts as {}.    *)

get_int_conf_reg(ok) == i2c_read_register(DEVICE, INT_CONF_REG, 1, 0, ok)

get_status(ok) == i2c_read_register(DEVICE, MAIN_STATUS_REG, 1, 0, ok)

\* Faulty variant: the value goes to the main control register.
set_int_conf_reg_WrongRegister(val, ok) ==
  i2c_write_register(DEVICE, MAIN_CTRL_REG, 1, <<ToUint8(val)>>, ok)

set_int_conf_reg(val, ok) ==
  i2c_write_register(DEVICE, INT_CONF_REG, 1, <<ToUint8(val)>>, ok)

get_part_id(ok) == i2c_read_register(DEVICE, PART_ID_REG, 1, 0, ok)

set_mode(m, ok) ==
  i2c_write_register(DEVICE, MAIN_CTRL_REG, 1, <<ToUint8(m)>>, ok)

get_mode(ok) == i2c_read_register(DEVICE, MAIN_CTRL_REG, 1, 0, ok)

\* uint8_t buffer[] = { resolution << 4 | rate };
EncodeResMeasRate(resolution, rate) == ToUint8(BitOr(resolution * 16, rate))

set_res_meas_rate(resolution, rate, ok) ==
  i2c_write_register(DEVICE, RES_MEAS_RATE_REG, 1,
                     <<EncodeResMeasRate(resolution, rate)>>, ok)

get_res_meas_rate(ok) == i2c_read_register(DEVICE, RES_MEAS_RATE_REG, 1, 0, ok)

set_gain(g, ok) == i2c_write_register(DEVICE, GAIN_REG, 1, <<ToUint8(g)>>, ok)

get_gain(ok) == i2c_read_register(DEVICE, GAIN_REG, 1, 0, ok)

-----------------------------------------------------------------------------
(* The decoders: what each print_* function writes for a register value.    *)

print_mode(m) ==
  CASE m = ALS_MODE -> Line("mode: ALS", NoArg)
    [] m = UVS_MODE -> Line("mode: UVS", NoArg)
    [] OTHER        -> Line("Unknown mode: %u", m)

\* the first switch of print_res_meas_rate
PrintResolution(rmr) ==
  LET resolution == ToUint8(rmr \div 16)
  IN  CASE resolution = RES_16_BIT -> Line("resolution: 16 Bit", NoArg)
        [] resolution = RES_17_BIT -> Line("resolution: 17 Bit", NoArg)
        [] resolution = RES_18_BIT -> Line("resolution: 18 Bit", NoArg)
        [] resolution = RES_19_BIT -> Line("resolution: 19 Bit", NoArg)
        [] resolution = RES_20_BIT -> Line("resolution: 20 Bit", NoArg)
        [] OTHER -> Line("Unknown resolution: %hhu", ToUint8(resolution))

\* the second switch of print_res_meas_rate
PrintMeasurementRate(rmr) ==
  LET measurement_rate == ToUint8(rmr % 16)
  IN  CASE measurement_rate = RATE_25   -> Line("measurement rate: 25ms", NoArg)
        [] measurement_rate = RATE_50   -> Line("measurement rate: 50ms", NoArg)
        [] measurement_rate = RATE_100  -> Line("measurement rate: 100ms", NoArg)
        [] measurement_rate = RATE_200  -> Line("measurement rate: 200ms", NoArg)
        [] measurement_rate = RATE_500  -> Line("measurement rate: 500ms", NoArg)
        [] measurement_rate = RATE_1000 -> Line("measurement rate: 1000ms", NoArg)
        [] measurement_rate = RATE_2000 -> Line("measurement rate: 2000ms", NoArg)
        [] OTHER -> Line("Unknown measurement rate: %hhu", ToUint8(measurement_rate))

print_res_meas_rate(rmr) == <<PrintResolution(rmr), PrintMeasurementRate(rmr)>>

print_gain(g) ==
  CASE g = GAIN_1  -> Line("gain: 1", NoArg)
    [] g = GAIN_3  -> Line("gain: 3", NoArg)
    [] g = GAIN_6  -> Line("gain: 6", NoArg)
    [] g = GAIN_9  -> Line("gain: 9", NoArg)
    [] g = GAIN_18 -> Line("gain: 18", NoArg)
    [] OTHER       -> Line("Unknown gain: %u", g)

\* Faulty variant: the bytes combined most significant first.
AssembleRaw_BigEndian(data0, data1, data2) ==
  BitOr(BitOr(data0 * 65536, data1 * 256), data2)

\* uint32_t raw_data = data2 << 16 | data1 << 8 | data0;  (below 2^24, so
\* the conversion from int to uint32_t keeps the value)
AssembleRaw(data0, data1, data2) ==
  BitOr(BitOr(data2 * 65536, data1 * 256), data0)

-----------------------------------------------------------------------------
(* main ().  One action per statement that talks to the outside.            *)

\* The sensor's register file holding the given bytes.
RegisterFile(pid, ctrl, gn, rmr, status, intconf, uv) ==
  [r \in RegisterMap |->
     CASE r = PART_ID_REG       -> pid
       [] r = MAIN_CTRL_REG     -> ctrl
       [] r = GAIN_REG          -> gn
       [] r = RES_MEAS_RATE_REG -> rmr
       [] r = MAIN_STATUS_REG   -> status
       [] r = INT_CONF_REG      -> intconf
       [] OTHER                 -> uv[r - UV_DATA_REG + 1]]

\* Register contents the sensor may hold when the program starts.
InitialRegisters ==
  { RegisterFile(pid, ctrl, gn, rmr, status, intconf, uv) :
      pid \in {EXPECTED_PART_ID, 0, 255},
      ctrl \in {0, ALS_MODE, UVS_MODE},
      gn \in {GAIN_3, GAIN_18, 7},
      rmr \in {0, 34, 87},
      status \in {0, 8},
      intconf \in {16, INT_CONF_RESET},
      uv \in {<<1, 2, 3>>, <<255, 255, 15>>} }

NoCodec == [op |-> "none", in |-> <<>>, out |-> <<>>]
NoSleep == [msec |-> 0, ts |-> [tv_sec |-> 0, tv_nsec |-> 0], res |-> 0,
            errno |-> "none", ret |-> FALSE, slept |-> 0, calls |-> 0,
            interrupts |-> 0]
NoRepeat == [step |-> "none", runs |-> 0, snap |-> <<>>]

Init ==
  /\ pc = "start"
  /\ argc \in {1, 2}
  /\ regs \in InitialRegisters
  /\ bus = <<>>
  /\ connects = 0
  /\ disconnects = 0
  /\ exitStatus = "running"
  /\ part_id = 0
  /\ mode = 0
  /\ gain = 0
  /\ res_meas_rate = 0
  /\ data = <<0, 0, 0>>
  /\ raw_data = 0
  /\ i = 0
  /\ reports = 0
  /\ sleeps = 0
  /\ shown = <<>>
  /\ codec = NoCodec
  /\ sl = NoSleep
  /\ rep = NoRepeat

\* if (argc < 2) { printf usage; exit (EXIT_FAILURE); }
Main_CheckArgs ==
  /\ pc = "start"
  /\ IF argc < 2
       THEN /\ pc' = "exited"
            /\ exitStatus' = "EXIT_FAILURE"
            /\ shown' = <<Line("Usage: %s <USB-DEVICE-TO-FT230-CHIP>", NoArg)>>
       ELSE /\ pc' = "connect"
            /\ UNCHANGED <<exitStatus, shown>>
  /\ UNCHANGED <<argc, regs, bus, connects, disconnects, part_id, mode, gain,
                 res_meas_rate, data, raw_data, i, reports, sleeps, codec, sl,
                 rep>>

\* if (!i2c_connect (&sd, argv[1])) { logError; exit (EXIT_FAILURE); }
Main_Connect ==
  /\ pc = "connect"
  /\ \E ok \in BOOLEAN :
       IF ok
         THEN /\ connects' = connects + 1
              /\ pc' = "get_part_id"
              /\ UNCHANGED exitStatus
         ELSE /\ pc' = "exited"
              /\ exitStatus' = "EXIT_FAILURE"
              /\ UNCHANGED connects
  /\ UNCHANGED <<argc, regs, bus, disconnects, part_id, mode, gain,
                 res_meas_rate, data, raw_data, i, reports, sleeps, shown,
                 codec, sl, rep>>

\* auto part_id = get_part_id (sd);
Main_GetPartId ==
  /\ pc = "get_part_id"
  /\ \E ok \in BOOLEAN :
       LET r == get_part_id(ok)
       IN  /\ part_id' = r.val
           /\ bus' = r.bus
  /\ pc' = "check_part_id"
  /\ UNCHANGED <<argc, regs, connects, disconnects, exitStatus, mode, gain,
                 res_meas_rate, data, raw_data, i, reports, sleeps, shown,
                 codec, sl, rep>>

\* Faulty variant: the mismatch is reported but the session goes on.
Main_CheckPartId_NoGate ==
  /\ pc = "check_part_id"
  /\ pc' = "mode_read"
  /\ shown' = IF part_id # EXPECTED_PART_ID
                THEN <<Line("Wrong Part ID: %hhu", ToUint8(part_id))>>
                ELSE <<Line("part id: 0x%hhx", ToUint8(part_id))>>
  /\ UNCHANGED <<argc, regs, bus, connects, disconnects, exitStatus, part_id,
                 mode, gain, res_meas_rate, data, raw_data, i, reports, sleeps,
                 codec, sl, rep>>

\* if (part_id != 0xb2) { logExit (...); }  printf ("part id: ...");
Main_CheckPartId ==
  /\ pc = "check_part_id"
  /\ IF part_id # EXPECTED_PART_ID
       THEN /\ logExit
            /\ shown' = <<Line("Wrong Part ID: %hhu", ToUint8(part_id))>>
       ELSE /\ pc' = "mode_read"
            /\ shown' = <<Line("part id: 0x%hhx", ToUint8(part_id))>>
            /\ UNCHANGED exitStatus
  /\ UNCHANGED <<argc, regs, bus, connects, disconnects, part_id, mode, gain,
                 res_meas_rate, data, raw_data, i, reports, sleeps, codec, sl,
                 rep>>

\* auto mode = get_mode (sd); printf ("mode raw: ..."); print_mode (mode);
Main_ModeRead ==
  /\ pc = "mode_read"
  /\ \E ok \in BOOLEAN :
       LET r == get_mode(ok)
       IN  /\ mode' = r.val
           /\ bus' = r.bus
           /\ shown' = <<Line("mode raw: 0x%hhx", ToUint8(r.val)), print_mode(r.val)>>
  /\ pc' = "mode_write"
  /\ UNCHANGED <<argc, regs, connects, disconnects, exitStatus, part_id, gain,
                 res_meas_rate, data, raw_data, i, reports, sleeps, codec, sl,
                 rep>>

\* set_mode (sd, UVS_MODE);   (the result is dropped)
Main_ModeWrite ==
  /\ pc = "mode_write"
  /\ \E ok \in BOOLEAN :
       LET w == set_mode(UVS_MODE, ok)
       IN  /\ regs' = w.regs
           /\ bus' = w.bus
  /\ shown' = <<Line("Setting mode to UVS_MODE.", NoArg)>>
  /\ pc' = "mode_readback"
  /\ UNCHANGED <<argc, connects, disconnects, exitStatus, part_id, mode, gain,
                 res_meas_rate, data, raw_data, i, reports, sleeps, codec, sl,
                 rep>>

\* mode = get_mode (sd); print_mode (mode);
Main_ModeReadBack ==
  /\ pc = "mode_readback"
  /\ \E ok \in BOOLEAN :
       LET r == get_mode(ok)
       IN  /\ mode' = r.val
           /\ bus' = r.bus
           /\ shown' = <<print_mode(r.val)>>
  /\ pc' = "gain_read"
  /\ UNCHANGED <<argc, regs, connects, disconnects, exitStatus, part_id, gain,
                 res_meas_rate, data, raw_data, i, reports, sleeps, codec, sl,
                 rep>>

\* auto gain = get_gain (sd); printf ("gain raw: ..."); print_gain (gain);
Main_GainRead ==
  /\ pc = "gain_read"
  /\ \E ok \in BOOLEAN :
       LET r == get_gain(ok)
       IN  /\ gain' = r.val
           /\ bus' = r.bus
           /\ shown' = <<Line("gain raw: %u", r.val), print_gain(r.val)>>
  /\ pc' = "gain_write"
  /\ UNCHANGED <<argc, regs, connects, disconnects, exitStatus, part_id, mode,
                 res_meas_rate, data, raw_data, i, reports, sleeps, codec, sl,
                 rep>>

\* set_gain (sd, GAIN_18);   (the result is dropped)
Main_GainWrite ==
  /\ pc = "gain_write"
  /\ \E ok \in BOOLEAN :
       LET w == set_gain(GAIN_18, ok)
       IN  /\ regs' = w.regs
           /\ bus' = w.bus
  /\ shown' = <<Line("Setting gain to 18.", NoArg)>>
  /\ pc' = "gain_readback"
  /\ UNCHANGED <<argc, connects, disconnects, exitStatus, part_id, mode, gain,
                 res_meas_rate, data, raw_data, i, reports, sleeps, codec, sl,
                 rep>>

\* gain = get_gain (sd); print_gain (gain);
Main_GainReadBack ==
  /\ pc = "gain_readback"
  /\ \E ok \in BOOLEAN :
       LET r == get_gain(ok)
       IN  /\ gain' = r.val
           /\ bus' = r.bus
           /\ shown' = <<print_gain(r.val)>>
  /\ pc' = "res_read"
  /\ UNCHANGED <<argc, regs, connects, disconnects, exitStatus, part_id, mode,
                 res_meas_rate, data, raw_data, i, reports, sleeps, codec, sl,
                 rep>>

\* auto res_meas_rate = get_res_meas_rate (sd); print_res_meas_rate (...);
Main_ResRead ==
  /\ pc = "res_read"
  /\ \E ok \in BOOLEAN :
       LET r == get_res_meas_rate(ok)
       IN  /\ res_meas_rate' = r.val
           /\ bus' = r.bus
           /\ shown' = print_res_meas_rate(r.val)
  /\ pc' = "res_write"
  /\ UNCHANGED <<argc, regs, connects, disconnects, exitStatus, part_id, mode,
                 gain, data, raw_data, i, reports, sleeps, codec, sl, rep>>

\* set_res_meas_rate (sd, RES_18_BIT, RATE_100);   (the result is dropped)
Main_ResWrite ==
  /\ pc = "res_write"
  /\ \E ok \in BOOLEAN :
       LET w == set_res_meas_rate(RES_18_BIT, RATE_100, ok)
       IN  /\ regs' = w.regs
           /\ bus' = w.bus
  /\ shown' = <<Line("Setting resolution to 18 bit and rate to 100ms.", NoArg)>>
  /\ pc' = "res_readback"
  /\ UNCHANGED <<argc, connects, disconnects, exitStatus, part_id, mode, gain,
                 res_meas_rate, data, raw_data, i, reports, sleeps, codec, sl,
                 rep>>

\* res_meas_rate = get_res_meas_rate (sd); print_res_meas_rate (...);
Main_ResReadBack ==
  /\ pc = "res_readback"
  /\ \E ok \in BOOLEAN :
       LET r == get_res_meas_rate(ok)
       IN  /\ res_meas_rate' = r.val
           /\ bus' = r.bus
           /\ shown' = print_res_meas_rate(r.val)
  /\ pc' = "poll_test"
  /\ UNCHANGED <<argc, regs, connects, disconnects, exitStatus, part_id, mode,
                 gain, data, raw_data, i, reports, sleeps, codec, sl, rep>>

\* for (int i = 0; i < 10; i++)
Main_PollTest ==
  /\ pc = "poll_test"
  /\ pc' = IF i < POLL_COUNT THEN "poll_status" ELSE "disconnect"
  /\ UNCHANGED <<sessVars, codec, sl, rep>>

\* printf ("Status: %hhx\n", get_status (sd));
Main_PollStatus ==
  /\ pc = "poll_status"
  /\ \E ok \in BOOLEAN :
       LET r == get_status(ok)
       IN  /\ bus' = r.bus
           /\ shown' = <<Line("Status: %hhx", ToUint8(r.val))>>
  /\ pc' = "poll_int_conf"
  /\ UNCHANGED <<argc, regs, connects, disconnects, exitStatus, part_id, mode,
                 gain, res_meas_rate, data, raw_data, i, reports, sleeps,
                 codec, sl, rep>>

\* printf ("Config Register: %hhx\n", get_int_conf_reg (sd));
Main_PollIntConf ==
  /\ pc = "poll_int_conf"
  /\ \E ok \in BOOLEAN :
       LET r == get_int_conf_reg(ok)
       IN  /\ bus' = r.bus
           /\ shown' = <<Line("Config Register: %hhx", ToUint8(r.val))>>
  /\ pc' = "poll_set_int_conf"
  /\ UNCHANGED <<argc, regs, connects, disconnects, exitStatus, part_id, mode,
                 gain, res_meas_rate, data, raw_data, i, reports, sleeps,
                 codec, sl, rep>>

\* Faulty variant: the loop is left when the write signals failure.
Main_PollSetIntConf_BreakOnFailure ==
  /\ pc = "poll_set_int_conf"
  /\ \E ok \in BOOLEAN :
       LET w == set_int_conf_reg(INT_CONF_RESET, ok)
       IN  /\ regs' = w.regs
           /\ bus' = w.bus
           /\ pc' = IF w.ret THEN "raw_data0" ELSE "disconnect"
  /\ UNCHANGED <<argc, connects, disconnects, exitStatus, part_id, mode, gain,
                 res_meas_rate, data, raw_data, i, reports, sleeps, shown,
                 codec, sl, rep>>

\* set_int_conf_reg (sd, 0x30);   (the result is dropped)
Main_PollSetIntConf ==
  /\ pc = "poll_set_int_conf"
  /\ \E ok \in BOOLEAN :
       LET w == set_int_conf_reg(INT_CONF_RESET, ok)
       IN  /\ regs' = w.regs
           /\ bus' = w.bus
  /\ pc' = "raw_data0"
  /\ UNCHANGED <<argc, connects, disconnects, exitStatus, part_id, mode, gain,
                 res_meas_rate, data, raw_data, i, reports, sleeps, shown,
                 codec, sl, rep>>

\* read_raw_data: data0 = data1 = data2 = 0;
\* i2c_read_register (sd, DEVICE, UV_DATA_REG + 0, sizeof data0, &data0);
ReadRawData0 ==
  /\ pc = "raw_data0"
  /\ \E ok \in BOOLEAN :
       LET r == i2c_read_register(DEVICE, UV_DATA_REG + 0, 1, 0, ok)
       IN  /\ data' = <<r.val, 0, 0>>
           /\ bus' = r.bus
  /\ pc' = "raw_data1"
  /\ UNCHANGED <<argc, regs, connects, disconnects, exitStatus, part_id, mode,
                 gain, res_meas_rate, raw_data, i, reports, sleeps, shown,
                 codec, sl, rep>>

\* i2c_read_register (sd, DEVICE, UV_DATA_REG + 1, sizeof data1, &data1);
ReadRawData1 ==
  /\ pc = "raw_data1"
  /\ \E ok \in BOOLEAN :
       LET r == i2c_read_register(DEVICE, UV_DATA_REG + 1, 1, data[2], ok)
       IN  /\ data' = [data EXCEPT ![2] = r.val]
           /\ bus' = r.bus
  /\ pc' = "raw_data2"
  /\ UNCHANGED <<argc, regs, connects, disconnects, exitStatus, part_id, mode,
                 gain, res_meas_rate, raw_data, i, reports, sleeps, shown,
                 codec, sl, rep>>

\* i2c_read_register (sd, DEVICE, UV_DATA_REG + 2, sizeof data2, &data2);
ReadRawData2 ==
  /\ pc = "raw_data2"
  /\ \E ok \in BOOLEAN :
       LET r == i2c_read_register(DEVICE, UV_DATA_REG + 2, 1, data[3], ok)
       IN  /\ data' = [data EXCEPT ![3] = r.val]
           /\ bus' = r.bus
  /\ pc' = "raw_data_return"
  /\ UNCHANGED <<argc, regs, connects, disconnects, exitStatus, part_id, mode,
                 gain, res_meas_rate, raw_data, i, reports, sleeps, shown,
                 codec, sl, rep>>

\* raw_data = data2 << 16 | data1 << 8 | data0; return raw_data;
\* and main's printf ("raw data: %u\n", ...)
ReadRawDataReturn ==
  /\ pc = "raw_data_return"
  /\ raw_data' = AssembleRaw(data[1], data[2], data[3])
  /\ shown' = <<Line("raw data: %u", raw_data')>>
  /\ reports' = reports + 1
  /\ pc' = "poll_sleep"
  /\ UNCHANGED <<argc, regs, bus, connects, disconnects, exitStatus, part_id,
                 mode, gain, res_meas_rate, data, i, sleeps, codec, sl, rep>>

\* msleep (100); i++   (the result is dropped; read_raw_data's frame is gone)
Main_PollSleep ==
  /\ pc = "poll_sleep"
  /\ sleeps' = sleeps + POLL_SLEEP_MS
  /\ i' = i + 1
  /\ data' = <<0, 0, 0>>
  /\ raw_data' = 0
  /\ pc' = "poll_test"
  /\ UNCHANGED <<argc, regs, bus, connects, disconnects, exitStatus, part_id,
                 mode, gain, res_meas_rate, reports, shown, codec, sl, rep>>

\* i2c_disconnect (sd); and main returns
Main_Disconnect ==
  /\ pc = "disconnect"
  /\ disconnects' = disconnects + 1
  /\ pc' = "exited"
  /\ exitStatus' = "EXIT_SUCCESS"
  /\ UNCHANGED <<argc, regs, bus, connects, part_id, mode, gain,
                 res_meas_rate, data, raw_data, i, reports, sleeps, shown,
                 codec, sl, rep>>

main ==
  \/ Main_CheckArgs
  \/ Main_Connect
  \/ Main_GetPartId
  \/ Main_CheckPartId
  \/ Main_ModeRead
  \/ Main_ModeWrite
  \/ Main_ModeReadBack
  \/ Main_GainRead
  \/ Main_GainWrite
  \/ Main_GainReadBack
  \/ Main_ResRead
  \/ Main_ResWrite
  \/ Main_ResReadBack
  \/ Main_PollTest
  \/ Main_PollStatus
  \/ Main_PollIntConf
  \/ Main_PollSetIntConf
  \/ ReadRawData0
  \/ ReadRawData1
  \/ ReadRawData2
  \/ ReadRawDataReturn
  \/ Main_PollSleep
  \/ Main_Disconnect

Next == main

Spec == Init /\ [][Next]_vars

-----------------------------------------------------------------------------
(* SpecCodec: the encoders and decoders applied to every input of their     *)
(* domain, one application per step.                                        *)

Resolutions == RES_20_BIT..RES_13_BIT
Rates == RATE_25..RATE_2000

SessionIdle ==
  /\ argc = 2
  /\ regs = RegisterFile(EXPECTED_PART_ID, ALS_MODE, GAIN_3, 0, 0, 16, <<1, 2, 3>>)
  /\ bus = <<>>
  /\ connects = 0
  /\ disconnects = 0
  /\ exitStatus = "running"
  /\ part_id = 0
  /\ mode = 0
  /\ gain = 0
  /\ res_meas_rate = 0
  /\ data = <<0, 0, 0>>
  /\ raw_data = 0
  /\ i = 0
  /\ reports = 0
  /\ sleeps = 0
  /\ shown = <<>>

InitCodec ==
  /\ pc = "codec"
  /\ SessionIdle
  /\ codec = NoCodec
  /\ sl = NoSleep
  /\ rep = NoRepeat

\* set_res_meas_rate's byte, handed to print_res_meas_rate
Codec_ResMeasRate ==
  /\ pc = "codec"
  /\ \E r \in Resolutions, t \in Rates :
       codec' = [op  |-> "encode_decode_res_meas_rate",
                 in  |-> <<r, t>>,
                 out |-> <<EncodeResMeasRate(r, t),
                           print_res_meas_rate(EncodeResMeasRate(r, t))>>]
  /\ UNCHANGED <<pc, sessVars, sl, rep>>

Codec_PrintMode ==
  /\ pc = "codec"
  /\ \E b \in Byte :
       codec' = [op |-> "print_mode", in |-> <<b>>, out |-> <<print_mode(b)>>]
  /\ UNCHANGED <<pc, sessVars, sl, rep>>

Codec_PrintGain ==
  /\ pc = "codec"
  /\ \E b \in Byte :
       codec' = [op |-> "print_gain", in |-> <<b>>, out |-> <<print_gain(b)>>]
  /\ UNCHANGED <<pc, sessVars, sl, rep>>

Codec_PrintResMeasRate ==
  /\ pc = "codec"
  /\ \E b \in Byte :
       codec' = [op |-> "print_res_meas_rate", in |-> <<b>>,
                 out |-> print_res_meas_rate(b)]
  /\ UNCHANGED <<pc, sessVars, sl, rep>>

NextCodec ==
  \/ Codec_ResMeasRate
  \/ Codec_PrintMode
  \/ Codec_PrintGain
  \/ Codec_PrintResMeasRate

SpecCodec == InitCodec /\ [][NextCodec]_vars

-----------------------------------------------------------------------------
(* SpecRaw: read_raw_data () called on a connected, configured sensor whose *)
(* data registers hold any three of RawBytes.                               *)

RawBytes == {0, 1, 2, 3, 127, 128, 255}

InitRaw ==
  /\ pc = "raw_data0"
  /\ argc = 2
  /\ regs \in { RegisterFile(EXPECTED_PART_ID, UVS_MODE, GAIN_18,
                              EncodeResMeasRate(RES_18_BIT, RATE_100), 0,
                              INT_CONF_RESET, <<b0, b1, b2>>) :
                   b0 \in RawBytes, b1 \in RawBytes, b2 \in RawBytes }
  /\ bus = <<>>
  /\ connects = 1
  /\ disconnects = 0
  /\ exitStatus = "running"
  /\ part_id = EXPECTED_PART_ID
  /\ mode = UVS_MODE
  /\ gain = GAIN_18
  /\ res_meas_rate = EncodeResMeasRate(RES_18_BIT, RATE_100)
  /\ data = <<0, 0, 0>>
  /\ raw_data = 0
  /\ i = 0
  /\ reports = 0
  /\ sleeps = 0
  /\ shown = <<>>
  /\ codec = NoCodec
  /\ sl = NoSleep
  /\ rep = NoRepeat

read_raw_data ==
  \/ ReadRawData0
  \/ ReadRawData1
  \/ ReadRawData2
  \/ ReadRawDataReturn

SpecRaw == InitRaw /\ [][read_raw_data]_vars

-----------------------------------------------------------------------------
(* SpecSleep: msleep (msec).  nanosleep either runs to the end of the       *)
(* request or is interrupted by a signal, and then stores what is left of   *)
(* the request in its second argument, which here is the request itself.    *)
(* Time is counted in whole milliseconds.                                   *)

MaxInterrupts == 3
MsecInputs == {0 - 1000, 0 - 1, 0, 1, 100, 999, 1000, 1001, 2500}

TimespecMs(ts) == ts.tv_sec * 1000 + ts.tv_nsec \div 1000000
MsTimespec(ms) == [tv_sec |-> ms \div 1000, tv_nsec |-> (ms % 1000) * 1000000]
TimespecValid(ts) == ts.tv_sec >= 0 /\ ts.tv_nsec \in 0..999999999

\* how far into a request of `total` ms a signal may arrive
InterruptPoints(total) == {e \in {0, 1, total \div 2, total - 1} : 0 <= e /\ e < total}

InitSleep ==
  /\ pc = "msleep"
  /\ SessionIdle
  /\ codec = NoCodec
  /\ sl \in {[NoSleep EXCEPT !.msec = m] : m \in MsecInputs}
  /\ rep = NoRepeat

\* if (msec < 0) { errno = EINVAL; return false; }  struct timespec ts = ...
Msleep_Entry ==
  /\ pc = "msleep"
  /\ IF sl.msec < 0
       THEN /\ sl' = [sl EXCEPT !.errno = "EINVAL", !.ret = FALSE]
            /\ pc' = "msleep_returned"
       ELSE /\ sl' = [sl EXCEPT !.ts = [tv_sec  |-> sl.msec \div 1000,
                                        tv_nsec |-> (sl.msec % 1000) * 1000000]]
            /\ pc' = "nanosleep"
  /\ UNCHANGED <<sessVars, codec, rep>>

\* res = nanosleep (&ts, &ts);  the call runs to its end
Msleep_NanosleepElapsed ==
  /\ pc = "nanosleep"
  /\ IF TimespecValid(sl.ts)
       THEN sl' = [sl EXCEPT !.res = 0,
                             !.slept = @ + TimespecMs(sl.ts),
                             !.calls = @ + 1]
       ELSE sl' = [sl EXCEPT !.res = 0 - 1, !.errno = "EINVAL", !.calls = @ + 1]
  /\ pc' = "msleep_while"
  /\ UNCHANGED <<sessVars, codec, rep>>

\* Faulty variant: nanosleep (&ts, NULL), the remaining time is not stored.
Msleep_NanosleepInterrupted_NoRem ==
  /\ pc = "nanosleep"
  /\ TimespecValid(sl.ts)
  /\ sl.interrupts < MaxInterrupts
  /\ \E e \in InterruptPoints(TimespecMs(sl.ts)) :
       sl' = [sl EXCEPT !.res = 0 - 1,
                        !.errno = "EINTR",
                        !.slept = @ + e,
                        !.calls = @ + 1,
                        !.interrupts = @ + 1]
  /\ pc' = "msleep_while"
  /\ UNCHANGED <<sessVars, codec, rep>>

\* res = nanosleep (&ts, &ts);  a signal arrives e ms into the call
Msleep_NanosleepInterrupted ==
  /\ pc = "nanosleep"
  /\ TimespecValid(sl.ts)
  /\ sl.interrupts < MaxInterrupts
  /\ \E e \in InterruptPoints(TimespecMs(sl.ts)) :
       sl' = [sl EXCEPT !.res = 0 - 1,
                        !.errno = "EINTR",
                        !.ts = MsTimespec(TimespecMs(sl.ts) - e),
                        !.slept = @ + e,
                        !.calls = @ + 1,
                        !.interrupts = @ + 1]
  /\ pc' = "msleep_while"
  /\ UNCHANGED <<sessVars, codec, rep>>

\* while (res && errno == EINTR);  return !res;
Msleep_While ==
  /\ pc = "msleep_while"
  /\ IF sl.res # 0 /\ sl.errno = "EINTR"
       THEN /\ pc' = "nanosleep"
            /\ sl' = sl
       ELSE /\ pc' = "msleep_returned"
            /\ sl' = [sl EXCEPT !.ret = (sl.res = 0)]
  /\ UNCHANGED <<sessVars, codec, rep>>

msleep ==
  \/ Msleep_Entry
  \/ Msleep_NanosleepElapsed
  \/ Msleep_NanosleepInterrupted
  \/ Msleep_While

\* A nanosleep that is not interrupted returns, and msleep's own steps run.
SpecSleep == InitSleep /\ [][msleep]_vars /\ WF_vars(msleep)

-----------------------------------------------------------------------------
(* SpecRepeat: main's configure sequence from any register contents, where  *)
(* one of the configure steps, when it has just finished, is run again (up  *)
(* to MaxRepeats more times).                                               *)

MaxRepeats == 1

StepStart(step) ==
  CASE step = "mode" -> "mode_read"
    [] step = "gain" -> "gain_read"
    [] step = "res"  -> "res_read"

\* where main stands when the step has just finished
StepEnd(step) ==
  CASE step = "mode" -> "gain_read"
    [] step = "gain" -> "res_read"
    [] step = "res"  -> "poll_test"

InitRepeat ==
  /\ pc = "mode_read"
  /\ argc = 2
  /\ regs \in {r \in InitialRegisters : r[PART_ID_REG] = EXPECTED_PART_ID}
  /\ bus = <<>>
  /\ connects = 1
  /\ disconnects = 0
  /\ exitStatus = "running"
  /\ part_id = EXPECTED_PART_ID
  /\ mode = 0
  /\ gain = 0
  /\ res_meas_rate = 0
  /\ data = <<0, 0, 0>>
  /\ raw_data = 0
  /\ i = 0
  /\ reports = 0
  /\ sleeps = 0
  /\ shown = <<>>
  /\ codec = NoCodec
  /\ sl = NoSleep
  /\ rep = NoRepeat

\* run the step that has just finished again, remembering the registers it left
Repeat_Step ==
  /\ \E step \in {"mode", "gain", "res"} :
       /\ pc = StepEnd(step)
       /\ rep.runs < MaxRepeats
       /\ rep.step \in {"none", step}
       /\ rep' = [step |-> step, runs |-> rep.runs + 1, snap |-> regs]
       /\ pc' = StepStart(step)
  /\ UNCHANGED <<sessVars, codec, sl>>

NextRepeat ==
  \/ Main_ModeRead
  \/ Main_ModeWrite
  \/ Main_ModeReadBack
  \/ Main_GainRead
  \/ Main_GainWrite
  \/ Main_GainReadBack
  \/ Main_ResRead
  \/ Main_ResWrite
  \/ Main_ResReadBack
  \/ Repeat_Step

SpecRepeat == InitRepeat /\ [][NextRepeat]_vars

-----------------------------------------------------------------------------
(* Properties.                                                              *)

Read1(reg) == Transaction("read", 83, reg, 1, NoArg)
Write1(reg, val) == Transaction("write", 83, reg, 1, val)
BusWrites == {k \in 1..Len(bus) : bus[k].op = "write"}
PartIdReads == {k \in 1..Len(bus) : bus[k].op = "read" /\ bus[k].reg = 6}
PollPcs == {"poll_test", "poll_status", "poll_int_conf", "poll_set_int_conf",
            "raw_data0", "raw_data1", "raw_data2", "raw_data_return",
            "poll_sleep"}
BeforeIdentity == {"start", "connect", "get_part_id"}

\* C1: on every path of main that has acquired the transport handle,
\* i2c_disconnect is invoked exactly once before the process ends, on the
\* success path and on the fatal identity-mismatch path alike.
C1_DisconnectOnce ==
  /\ disconnects <= 1
  /\ (pc = "exited" /\ connects = 1) => disconnects = 1

UnknownTexts == {"Unknown mode: %u", "Unknown gain: %u",
                 "Unknown resolution: %hhu", "Unknown measurement rate: %hhu"}
Recognised(line) == line.text \notin UnknownTexts /\ line.arg = NoArg
Unrecognised(line, raw) == line.text \in UnknownTexts /\ line.arg = raw

ResolutionOf(line) ==
  CASE line.text = "resolution: 20 Bit" -> 0
    [] line.text = "resolution: 19 Bit" -> 1
    [] line.text = "resolution: 18 Bit" -> 2
    [] line.text = "resolution: 17 Bit" -> 3
    [] line.text = "resolution: 16 Bit" -> 4
    [] line.text = "resolution: 13 Bit" -> 5
    [] OTHER -> NoArg

RateOf(line) ==
  CASE line.text = "measurement rate: 25ms"   -> 0
    [] line.text = "measurement rate: 50ms"   -> 1
    [] line.text = "measurement rate: 100ms"  -> 2
    [] line.text = "measurement rate: 200ms"  -> 3
    [] line.text = "measurement rate: 500ms"  -> 4
    [] line.text = "measurement rate: 1000ms" -> 5
    [] line.text = "measurement rate: 2000ms" -> 6
    [] OTHER -> NoArg

\* C2: for every resolution ordinal r in 0..5 and rate ordinal t in 0..6 the
\* byte set_res_meas_rate writes, (r << 4) | t, is decoded by
\* print_res_meas_rate back to exactly (r, t), neither field being reported
\* as Unknown.
C2_RoundTrip ==
  codec.op = "encode_decode_res_meas_rate" =>
    LET r     == codec.in[1]
        t     == codec.in[2]
        byte  == codec.out[1]
        lines == codec.out[2]
    IN  /\ byte = r * 16 + t
        /\ Recognised(lines[1]) /\ ResolutionOf(lines[1]) = r
        /\ Recognised(lines[2]) /\ RateOf(lines[2]) = t

\* C3: the part-id register is read exactly once; a byte other than 0xB2
\* ends the session on the fatal path with no register write and no
\* configure or poll step, 0xB2 lets it proceed; no register write ever
\* precedes a part-id read that returned 0xB2.
C3_IdentityGate ==
  /\ Cardinality(PartIdReads) <= 1
  /\ (connects = 1 /\ pc \notin BeforeIdentity) =>
       /\ Len(bus) >= 1
       /\ bus[1] = Read1(6)
       /\ PartIdReads = {1}
  /\ BusWrites # {} => (bus[1] = Read1(6) /\ part_id = 178)
  /\ (connects = 1 /\ pc \notin BeforeIdentity \cup {"check_part_id"}
        /\ part_id # 178) =>
       /\ pc = "exited"
       /\ exitStatus = "EXIT_FAILURE"
       /\ bus = <<Read1(6)>>
       /\ reports = 0
       /\ sleeps = 0
  /\ (connects = 1 /\ pc \notin BeforeIdentity \cup {"check_part_id"}
        /\ part_id = 178) =>
       ~(pc = "exited" /\ exitStatus = "EXIT_FAILURE")

C3_Witness ==
  /\ pc = "exited"
  /\ connects = 1
  /\ part_id = 255
  /\ bus = <<Read1(6)>>

C4_Iteration ==
  <<Read1(7), Read1(25), Write1(25, 48), Read1(16), Read1(17), Read1(18)>>

\* bus transactions of the current iteration that lie behind each position
C4_Offset ==
  CASE pc \in {"poll_test", "poll_status"}       -> 0
    [] pc = "poll_int_conf"                      -> 1
    [] pc = "poll_set_int_conf"                  -> 2
    [] pc = "raw_data0"                          -> 3
    [] pc = "raw_data1"                          -> 4
    [] pc = "raw_data2"                          -> 5
    [] pc \in {"raw_data_return", "poll_sleep"}  -> 6

C4_Order ==
  \A k \in 11..Len(bus) : bus[k] = C4_Iteration[((k - 11) % 6) + 1]

\* C4: once polling starts the loop runs exactly 10 iterations, each issuing
\* in order: read 0x07, read 0x19, write 0x30 to 0x19, the raw measurement
\* reads, a 100 ms sleep; exactly 10 raw reports are printed; no success or
\* failure signal ends the loop early; i2c_disconnect follows the last
\* iteration.
C4_PollLoop ==
  /\ pc \in PollPcs =>
       /\ i \in 0..10
       /\ pc # "poll_test" => i < 10
       /\ Len(bus) = 10 + 6 * i + C4_Offset
       /\ C4_Order
       /\ reports = i + (IF pc = "poll_sleep" THEN 1 ELSE 0)
       /\ sleeps = 100 * i
       /\ disconnects = 0
  /\ (pc = "disconnect" \/ (pc = "exited" /\ exitStatus = "EXIT_SUCCESS")) =>
       /\ i = 10
       /\ Len(bus) = 70
       /\ C4_Order
       /\ reports = 10
       /\ sleeps = 1000
       /\ disconnects = (IF pc = "exited" THEN 1 ELSE 0)

\* ten iterations completed although every write of 0x30 was refused
C4_Witness ==
  /\ pc = "exited"
  /\ exitStatus = "EXIT_SUCCESS"
  /\ reports = 10
  /\ disconnects = 1
  /\ regs[25] = 16

\* C5: whatever the mode, gain and resolution/rate registers held at first,
\* the read-back of each configure step returns exactly what was written:
\* mode 0x0A, gain 4, resolution/rate 0x22 (nibbles 2 and 2).
C5_ReadBack ==
  /\ pc = "gain_read" => mode = 10
  /\ pc = "res_read"  => gain = 4
  /\ pc = "poll_test" =>
       /\ res_meas_rate = 34
       /\ res_meas_rate \div 16 = 2
       /\ res_meas_rate % 16 = 2

\* C6: read_raw_data issues three single-byte reads at 0x10, 0x11, 0x12 in
\* that order and returns byte2<<16 | byte1<<8 | byte0 of the bytes read;
\* the result lies in 0..2^24-1, and the bytes (1, 2, 3) give 0x030201.
C6_ReadRawData ==
  /\ pc = "raw_data0" => bus = <<>>
  /\ pc = "raw_data1" => bus = <<Read1(16)>>
  /\ pc = "raw_data2" => bus = <<Read1(16), Read1(17)>>
  /\ pc \in {"raw_data_return", "poll_sleep"} =>
       /\ bus = <<Read1(16), Read1(17), Read1(18)>>
       /\ \A k \in 1..3 : data[k] \in {regs[15 + k], 0}
  /\ pc = "poll_sleep" =>
       /\ raw_data = data[3] * 65536 + data[2] * 256 + data[1]
       /\ raw_data \in 0..16777215
       /\ data = <<1, 2, 3>> => raw_data = 197121
       /\ shown = <<Line("raw data: %u", raw_data)>>

C6_Witness ==
  /\ pc = "poll_sleep"
  /\ data = <<1, 2, 3>>
  /\ raw_data = 197121

\* C7: decoding never fails for any byte 0..255 of the mode, gain or
\* resolution/rate register; a value outside the known set (modes 0x02 and
\* 0x0A, gains 0..4, resolutions 0..5, rates 0..6) is reported as
\* unrecognised with the raw value; the two nibbles of the resolution/rate
\* byte are decoded independently, so a known rate is reported whatever the
\* resolution nibble is, and a known resolution whatever the rate nibble is.
C7_Decode ==
  /\ codec.op = "print_mode" =>
       LET b == codec.in[1]
           l == codec.out[1]
       IN  /\ Recognised(l) \/ Unrecognised(l, b)
           /\ b \notin {2, 10} => Unrecognised(l, b)
  /\ codec.op = "print_gain" =>
       LET b == codec.in[1]
           l == codec.out[1]
       IN  /\ Recognised(l) \/ Unrecognised(l, b)
           /\ b \notin 0..4 => Unrecognised(l, b)
  /\ codec.op = "print_res_meas_rate" =>
       LET hi == codec.in[1] \div 16
           lo == codec.in[1] % 16
       IN  /\ Recognised(codec.out[1]) \/ Unrecognised(codec.out[1], hi)
           /\ Recognised(codec.out[2]) \/ Unrecognised(codec.out[2], lo)
           /\ hi \notin 0..5 => Unrecognised(codec.out[1], hi)
           /\ lo \notin 0..6 => Unrecognised(codec.out[2], lo)
           /\ lo \in 0..6 => RateOf(codec.out[2]) = lo
           /\ hi \in 0..5 => ResolutionOf(codec.out[1]) = hi

\* C8: each configure step is idempotent: from any register contents,
\* running the step twice leaves the registers as running it once did.
C8_Idempotent ==
  (rep.step # "none" /\ pc = StepEnd(rep.step)) => regs = rep.snap

C9_Safety ==
  /\ pc = "nanosleep" => sl.slept + TimespecMs(sl.ts) = sl.msec
  /\ (pc = "msleep_while" /\ sl.res # 0) =>
       /\ sl.errno = "EINTR"
       /\ sl.slept + TimespecMs(sl.ts) = sl.msec
       /\ sl.slept < sl.msec
  /\ (pc = "msleep_while" /\ sl.res = 0) => sl.slept = sl.msec
  /\ (pc = "msleep_returned" /\ sl.msec >= 0) =>
       /\ sl.ret = TRUE
       /\ sl.slept = sl.msec
       /\ sl.calls = sl.interrupts + 1
  /\ (pc = "msleep_returned" /\ sl.msec < 0) =>
       /\ sl.ret = FALSE
       /\ sl.errno = "EINVAL"
       /\ sl.slept = 0
       /\ sl.calls = 0

\* C9: msleep (msec) with msec >= 0 resumes after every EINTR with only the
\* remaining duration, so that the time slept when it returns true equals
\* the request; it returns once the interruptions stop; msleep with
\* msec < 0 returns false with errno EINVAL without sleeping.
C9_Msleep == [](C9_Safety) /\ <>(pc = "msleep_returned")

C9_Witness ==
  /\ pc = "msleep_returned"
  /\ sl.msec = 2500
  /\ sl.interrupts >= 2
  /\ sl.ret = TRUE
  /\ sl.slept = 2500

C10_Writes ==
  \A k \in BusWrites :
    bus[k] \in {Write1(0, 10), Write1(5, 4), Write1(4, 34), Write1(25, 48)}

C10_Step ==
  /\ \A r \in {6, 7, 16, 17, 18} : regs'[r] = regs[r]
  /\ pc \in PollPcs =>
       /\ \A r \in {0, 4, 5} : regs'[r] = regs[r]
       /\ (Len(bus') > Len(bus) /\ bus'[Len(bus')].op = "write") =>
            bus'[Len(bus')].reg = 25

\* C10: the only register writes ever issued go to device 0x53 and are
\* 0x00 <- 0x0A, 0x05 <- 4, 0x04 <- 0x22 (one single-byte write for both
\* fields) and 0x19 <- 0x30; the part-id, status and data registers are
\* never written; during polling only 0x19 is written, which leaves the
\* configured mode, gain and resolution/rate untouched.
C10_Frame == [](C10_Writes) /\ [][C10_Step]_vars

\* every write took effect and the poll loop has run to its end
C10_Witness ==
  /\ pc = "exited"
  /\ exitStatus = "EXIT_SUCCESS"
  /\ regs[0] = 10
  /\ regs[5] = 4
  /\ regs[4] = 34
  /\ regs[25] = 48
  /\ Len(bus) = 70

=============================================================================
